---------------------------- MODULE Spec2Model ----------------------------
(***************************************************************************)
(* Model of src/app.py: a Slack bridge that mirrors the messages of many   *)
(* channels into one timeline channel.                                     *)
(*                                                                         *)
(* The program state is the three module-level dictionaries (relay_map,    *)
(* channel_name_cache, user_info_cache).  The handler relay(event, logger) *)
(* is one atomic action; the calls it issues to its collaborators (the     *)
(* Slack WebClient, requests.get) and the dictionary writes it performs    *)
(* are recorded, in program order, in the variable trace, which is cleared *)
(* when the handler has returned (action Return).  The outcome of every    *)
(* collaborator call is chosen by the environment.                         *)
(*                                                                         *)
(* Text is a sequence of pieces.  A piece is one character that matters to *)
(* the mention pattern <@([A-Z0-9]+)> ("<", "@", ">", a capital letter or  *)
(* digit) or an opaque chunk holding none of those at its edges.           *)
(***************************************************************************)
EXTENDS Naturals, Sequences, FiniteSets, TLC

VARIABLES
    relay_map,             \* app.py:29  root ts -> timeline ts
    channel_name_cache,    \* app.py:31  channel id -> name
    user_info_cache,       \* app.py:33  user id -> user info
    rehoster_defined,      \* is the global download_and_reupload_file bound
    temp_files,            \* the temporary files that exist on the local disk
    timeline,              \* number of messages the timeline channel holds
    pc,                    \* "idle", or "done" when a call has just ended
    event,                 \* the event of the call that has just ended
    trace,                 \* calls and dictionary writes of that call
    raised,                \* did an exception leave that call
    built,                 \* the call of build_unfurl_block alone (SpecBuild)
    resolved,              \* the mention resolution alone (SpecResolve)
    threads,               \* the handler calls under way at once (SpecThreads)
    mirrored,              \* history: origin ts -> the timeline ts that the
                           \* successful posts of its root events returned
    origin                 \* history: timeline ts -> the channel of the root
                           \* event whose post returned it (SpecChannels)

vars == <<relay_map, channel_name_cache, user_info_cache, rehoster_defined,
          temp_files, timeline, pc, event, trace, raised, built, resolved, threads,
          mirrored, origin>>

---------------------------------------------------------------------------
(* Bounds of the model.                                                    *)

\* origin timestamps are 1..MaxTs
MaxTs == 2
\* the timeline channel accepts at most MaxPosts messages
MaxPosts == 3
\* an event given to build_unfurl_block alone carries at most MaxBuildFiles
\* files (an event handled by relay carries at most one)
MaxBuildFiles == 2
\* a text given to the mention resolver alone has at most MaxTextLen pieces
MaxTextLen == 6
\* at most MaxThreads handler calls are under way at once
MaxThreads == 2

---------------------------------------------------------------------------
(* Values.  An absent key or None is "" for a string, <<>> for a text or a *)
(* list, 0 for a timestamp: the code tests these by truthiness.            *)

\* os.environ["ALL_TIMELINE_ID"]; a channel id is <<prefix, last six chars>>
ALL_TIMELINE == <<"C0", "TMLINE">>
CH_PUBLIC == <<"C1", "PUBLIC">>
CH_PRIVATE == <<"G2", "SECRET">>

\* the channel_type Slack sends with the events of a channel
ChannelTypeOf(ch) == IF ch = CH_PRIVATE THEN "group" ELSE "channel"

\* what conversations.info answers for a channel when it succeeds
RemoteChannelName(ch) ==
    IF ch = CH_PUBLIC THEN <<"general">>
    ELSE IF ch = CH_PRIVATE THEN <<"secret">> ELSE <<"timeline">>

\* the pieces [A-Z0-9] of the mention pattern
UpperAlnum == {"U", "B", "1"}

\* the one user the workspace directory holds; a user id is a text
U_KNOWN == <<"U">>
\* what users.info answers for a user it holds
RemoteUserInfo(user_id) ==
    [real_name |-> <<"B">>, profile |-> [image_48 |-> "avatar.png"]]
RemoteUserExists(user_id) == user_id = U_KNOWN

\* the announcement Slackbot posts about a private file, as one piece
FILE_SHARE_PHRASE == "san ga anata no private file"

\* what files_upload_v2 answers in upload_response["file"]
UPLOADED_FILE ==
    [id |-> "F_NEW", url_private |-> "files-pri/F_NEW", permalink |-> "files/F_NEW"]

---------------------------------------------------------------------------
(* Helpers over dictionaries and nondeterministic results.                 *)

HasKey(d, k) == k \in DOMAIN d
Put(d, k, v) == [x \in DOMAIN d \cup {k} |-> IF x = k THEN v ELSE d[x]]

\* A function of the program is an operator from its arguments and the
\* machine m (the dictionaries, the timeline, the trace so far) to the set
\* of its possible results [ret, exc, m]: one per outcome the environment
\* can give to the collaborator calls it makes.  Then runs F on each.
Then(results, F(_)) == UNION {F(r) : r \in results}

Log(m, entry) == [m EXCEPT !.trace = Append(@, entry)]

---------------------------------------------------------------------------
(* Directory cache.                                                        *)

\* ch_id[-6:]
Last6(ch_id) == ch_id[2]

\* the outcomes of conversations.info: answered, SlackApiError
\* channel_not_found, another SlackApiError
ConvInfoOutcomes == {"ok", "channel_not_found", "error"}

\* a faulty get_channel_name: the cache is written and never read
get_channel_name_no_hit(ch_id, m) ==
    {LET m1   == Log(m, [op |-> "conversations_info", id |-> ch_id, result |-> out])
         name == CASE out = "ok" -> RemoteChannelName(ch_id)
                   [] out = "channel_not_found" -> <<"external-", Last6(ch_id)>>
                   [] OTHER -> <<"unknown">>
         m2   == IF out \in {"ok", "channel_not_found"}
                 THEN [m1 EXCEPT !.channel_name_cache = Put(@, ch_id, name)]
                 ELSE m1
     IN  [ret |-> name,
          m   |-> Log(m2, [op |-> "get_channel_name", id |-> ch_id, hit |-> FALSE,
                           ret |-> name])]
     : out \in ConvInfoOutcomes}

\* a faulty get_channel_name: line 72 stores "unknown" in the cache too
get_channel_name_caches_unknown(ch_id, m) ==
    IF HasKey(m.channel_name_cache, ch_id)
    THEN {[ret |-> m.channel_name_cache[ch_id],
           m   |-> Log(m, [op |-> "get_channel_name", id |-> ch_id, hit |-> TRUE,
                           ret |-> m.channel_name_cache[ch_id]])]}
    ELSE {LET m1   == Log(m, [op |-> "conversations_info", id |-> ch_id, result |-> out])
              name == CASE out = "ok" -> RemoteChannelName(ch_id)
                        [] out = "channel_not_found" -> <<"external-", Last6(ch_id)>>
                        [] OTHER -> <<"unknown">>
              m2   == Log([m1 EXCEPT !.channel_name_cache = Put(@, ch_id, name)],
                          [op |-> "channel_name_cache_set", id |-> ch_id, value |-> name])
          IN  [ret |-> name,
               m   |-> Log(m2, [op |-> "get_channel_name", id |-> ch_id, hit |-> FALSE,
                                ret |-> name])]
          : out \in ConvInfoOutcomes}

\* get_channel_name(ch_id)
get_channel_name(ch_id, m) ==
    IF HasKey(m.channel_name_cache, ch_id)
    THEN {[ret |-> m.channel_name_cache[ch_id],
           m   |-> Log(m, [op |-> "get_channel_name", id |-> ch_id, hit |-> TRUE,
                           ret |-> m.channel_name_cache[ch_id]])]}
    ELSE {LET m1   == Log(m, [op |-> "conversations_info", id |-> ch_id, result |-> out])
              name == CASE out = "ok" -> RemoteChannelName(ch_id)
                        [] out = "channel_not_found" -> <<"external-", Last6(ch_id)>>
                        [] OTHER -> <<"unknown">>
              m2   == IF out \in {"ok", "channel_not_found"}
                      THEN Log([m1 EXCEPT !.channel_name_cache = Put(@, ch_id, name)],
                               [op |-> "channel_name_cache_set", id |-> ch_id, value |-> name])
                      ELSE m1
          IN  [ret |-> name,
               m   |-> Log(m2, [op |-> "get_channel_name", id |-> ch_id, hit |-> FALSE,
                                ret |-> name])]
          : out \in ConvInfoOutcomes}

UNKNOWN_USER == [real_name |-> <<"Unknown User">>, profile |-> [image_48 |-> ""]]

\* the outcomes of users.info for a user id: answered (only for a user the
\* directory holds) or SlackApiError
UsersInfoOutcomes(user_id) == IF RemoteUserExists(user_id) THEN {TRUE, FALSE} ELSE {FALSE}

\* get_user_info(user_id)
get_user_info(user_id, m) ==
    IF HasKey(m.user_info_cache, user_id)
    THEN {[ret |-> m.user_info_cache[user_id],
           m   |-> Log(m, [op |-> "get_user_info", id |-> user_id, hit |-> TRUE,
                           ret |-> m.user_info_cache[user_id]])]}
    ELSE {LET m1   == Log(m, [op |-> "users_info", id |-> user_id, result |-> ok])
              info == IF ok THEN RemoteUserInfo(user_id) ELSE UNKNOWN_USER
              m2   == IF ok
                      THEN Log([m1 EXCEPT !.user_info_cache = Put(@, user_id, info)],
                               [op |-> "user_info_cache_set", id |-> user_id, value |-> info])
                      ELSE m1
          IN  [ret |-> info,
               m   |-> Log(m2, [op |-> "get_user_info", id |-> user_id, hit |-> FALSE,
                                ret |-> info])]
          : ok \in UsersInfoOutcomes(user_id)}

\* make_payload(ch_id, ch_type, permalink): the text of the timeline post
make_payload(ch_id, ch_type, permalink, m) ==
    {[ret |-> [ch_display |-> <<"#">> \o r.ret, permalink |-> permalink], m |-> r.m]
     : r \in get_channel_name(ch_id, m)}

---------------------------------------------------------------------------
(* Attachment rehoster.                                                    *)

\* the outcomes of one attempt: requests.get answers 200, answers another
\* status, or raises; files_upload_v2 answers with a file, answers without
\* one, or raises
RehostOutcomes ==
    {[get |-> "200", upload |-> "file"], [get |-> "200", upload |-> "no_file"],
     [get |-> "200", upload |-> "exception"],
     [get |-> "500", upload |-> "-"], [get |-> "exception", upload |-> "-"]}

\* lines 451-452: tempfile.NamedTemporaryFile(delete=False, suffix="_" + name)
\* creates a file under a path no file has yet
NamedTemporaryFile(file_name, m) ==
    LET temp_path == [suffix |-> file_name, n |-> Len(m.trace)]
    IN  [ret |-> temp_path,
         m   |-> Log([m EXCEPT !.temp_files = @ \cup {temp_path}],
                     [op |-> "NamedTemporaryFile", path |-> temp_path])]

\* os.unlink(temp_path)
os_unlink(temp_path, m) ==
    Log([m EXCEPT !.temp_files = @ \ {temp_path}], [op |-> "os_unlink", path |-> temp_path])

\* lines 482-488: finally, if temp_path and os.path.exists(temp_path)
finally_unlink(temp_path, m) ==
    IF temp_path \in m.temp_files THEN os_unlink(temp_path, m) ELSE m

\* a faulty download_and_reupload_file: the finally clause of lines 482-488
\* is missing
download_and_reupload_file_no_finally(file_info, m) ==
    IF file_info.url_private = ""
    THEN {[ret |-> [ok |-> FALSE], m |-> m]}
    ELSE {LET t  == NamedTemporaryFile(file_info.name, m)
              m1 == Log(t.m, [op |-> "requests_get", url |-> file_info.url_private,
                              result |-> o.get])
              m2 == CASE o.get = "200" ->
                            Log(m1, [op |-> "files_upload_v2", channel_id |-> ALL_TIMELINE,
                                     filename |-> file_info.name, result |-> o.upload])
                      [] o.get = "500" -> os_unlink(t.ret, m1)
                      [] OTHER -> m1
          IN  [ret |-> IF o.get = "200" /\ o.upload = "file"
                       THEN [ok |-> TRUE, file |-> UPLOADED_FILE] ELSE [ok |-> FALSE],
               m   |-> m2]
          : o \in RehostOutcomes}

\* download_and_reupload_file(file_info, logger): ret.ok tells a file
\* descriptor from None.  A status other than 200 unlinks the file at line
\* 459; every path that created the file leaves through the finally clause.
download_and_reupload_file(file_info, m) ==
    IF file_info.url_private = ""
    THEN {[ret |-> [ok |-> FALSE], m |-> m]}
    ELSE {LET t  == NamedTemporaryFile(file_info.name, m)
              m1 == Log(t.m, [op |-> "requests_get", url |-> file_info.url_private,
                              result |-> o.get])
              m2 == CASE o.get = "200" ->
                            Log(m1, [op |-> "files_upload_v2", channel_id |-> ALL_TIMELINE,
                                     filename |-> file_info.name, result |-> o.upload])
                      [] o.get = "500" -> os_unlink(t.ret, m1)
                      [] OTHER -> m1
          IN  [ret |-> IF o.get = "200" /\ o.upload = "file"
                       THEN [ok |-> TRUE, file |-> UPLOADED_FILE] ELSE [ok |-> FALSE],
               m   |-> finally_unlink(t.ret, m2)]
          : o \in RehostOutcomes}

---------------------------------------------------------------------------
(* Mention resolver: re.sub(r'<@([A-Z0-9]+)>', replace_mention, text).     *)

\* the length of the run of [A-Z0-9] pieces of text that starts at i
RECURSIVE RunLen(_, _)
RunLen(text, i) ==
    IF i > Len(text) \/ text[i] \notin UpperAlnum THEN 0 ELSE 1 + RunLen(text, i + 1)

\* the length of the match of the pattern at i, 0 when there is none
MatchLen(text, i) ==
    LET k == RunLen(text, i + 2)
    IN  IF /\ i + 3 <= Len(text)
           /\ text[i] = "<" /\ text[i + 1] = "@"
           /\ k >= 1 /\ i + 2 + k <= Len(text) /\ text[i + 2 + k] = ">"
        THEN k + 3 ELSE 0

\* replace_mention(match)
replace_mention(mention_user_id, m) ==
    {[ret |-> <<"@">> \o r.ret.real_name, m |-> r.m] : r \in get_user_info(mention_user_id, m)}

\* the scan of re.sub from piece i on, left to right, matches not overlapping
RECURSIVE re_sub(_, _, _, _)
re_sub(text, i, out, m) ==
    IF i > Len(text) THEN {[ret |-> out, m |-> m]}
    ELSE LET n == MatchLen(text, i)
         IN  IF n = 0 THEN re_sub(text, i + 1, Append(out, text[i]), m)
             ELSE Then(replace_mention(SubSeq(text, i + 2, i + n - 2), m),
                       LAMBDA r : re_sub(text, i + n, out \o r.ret, r.m))

---------------------------------------------------------------------------
(* Presentation builder.                                                   *)

ContextBlock(elements) == [type |-> "context", elements |-> elements]
PlainText(text) == [type |-> "plain_text", text |-> text]
PlainTextEmoji(text) == [type |-> "plain_text", text |-> text, emoji |-> TRUE]
SectionBlock(text) == [type |-> "section", text |-> [type |-> "mrkdwn", text |-> text]]

\* lines 102-142
AuthorBlock(user_id, user_info) ==
    IF user_id # <<>>
    THEN IF user_info.profile.image_48 # ""
         THEN ContextBlock(<<[type |-> "image", image_url |-> user_info.profile.image_48,
                              alt_text |-> user_info.real_name],
                             PlainText(user_info.real_name \o <<" no toukou">>)>>)
         ELSE ContextBlock(<<PlainText(user_info.real_name \o <<" no toukou">>)>>)
    ELSE ContextBlock(<<PlainText(<<"dareka no toukou">>)>>)

\* lines 160-184
ChannelBlock(is_private, ch_name) ==
    IF is_private
    THEN ContextBlock(<<PlainTextEmoji(<<"private channel: ">> \o ch_name)>>)
    ELSE ContextBlock(<<PlainTextEmoji(<<"channel: #">> \o ch_name)>>)

\* lines 208-214, 243-249: the link of an image
ImageLinkBlock(url, file_name) ==
    SectionBlock(<<"[camera] image attached: <", url, "|", file_name, ">">>)
\* lines 221-227
PrivateImageLinkBlock(url, file_name) ==
    SectionBlock(<<"[camera] image attached (private channel): <", url, "|", file_name, ">">>)
\* lines 229-235
NotViewableBlock == SectionBlock(<<"[camera] image attached (not viewable)">>)
\* lines 251-257
FileLinkBlock(url, file_name) ==
    SectionBlock(<<"[clip] attached file: <", url, "|", file_name, ">">>)

IsImage(f) == f.mimetype = "image/png"

\* a faulty lines 189-257: line 196 does not test the mimetype, every file
\* of a private channel is taken for an image
file_block_rehosts_any_file(f, is_private, logger, m) ==
    IF is_private /\ logger
    THEN IF ~m.rehoster_defined
         THEN {[ret |-> NotViewableBlock, exc |-> TRUE, m |-> m]}
         ELSE {[ret |-> IF r.ret.ok
                        THEN ImageLinkBlock(r.ret.file.permalink, f.name)
                        ELSE IF f.url_private # ""
                             THEN PrivateImageLinkBlock(f.url_private, f.name)
                             ELSE NotViewableBlock,
                exc |-> FALSE, m |-> r.m]
               : r \in download_and_reupload_file(f, m)}
    ELSE {[ret |-> ImageLinkBlock(IF f.permalink # "" THEN f.permalink ELSE f.url_private,
                                  f.name),
           exc |-> FALSE, m |-> m]}

\* lines 189-257: the block of one file; exc is the NameError raised when
\* download_and_reupload_file is not bound yet
file_block(f, is_private, logger, m) ==
    IF IsImage(f)
    THEN IF is_private /\ logger
         THEN IF ~m.rehoster_defined
              THEN {[ret |-> NotViewableBlock, exc |-> TRUE, m |-> m]}
              ELSE {[ret |-> IF r.ret.ok
                             THEN ImageLinkBlock(r.ret.file.permalink, f.name)
                             ELSE IF f.url_private # ""
                                  THEN PrivateImageLinkBlock(f.url_private, f.name)
                                  ELSE NotViewableBlock,
                     exc |-> FALSE, m |-> r.m]
                    : r \in download_and_reupload_file(f, m)}
         ELSE {[ret |-> ImageLinkBlock(IF f.permalink # "" THEN f.permalink ELSE f.url_private,
                                       f.name),
                exc |-> FALSE, m |-> m]}
    ELSE {[ret |-> FileLinkBlock(f.url_private, f.name), exc |-> FALSE, m |-> m]}

\* lines 188-257: the loop over event["files"] from file i on
RECURSIVE file_blocks(_, _, _, _, _, _)
file_blocks(files, i, is_private, logger, blocks, m) ==
    IF i > Len(files) THEN {[ret |-> blocks, exc |-> FALSE, m |-> m]}
    ELSE Then(file_block(files[i], is_private, logger, m),
              LAMBDA r : IF r.exc THEN {[ret |-> blocks, exc |-> TRUE, m |-> r.m]}
                         ELSE file_blocks(files, i + 1, is_private, logger,
                                          Append(blocks, r.ret), r.m))

\* a faulty build_unfurl_block: line 187 does not test include_images
build_unfurl_block_always_attaches(ev, include_images, logger, m) ==
    LET called == Log(m, [op |-> "build_unfurl_block", include_images |-> include_images,
                          logger |-> logger])
        is_private == ev.channel_type = "group"
        text == IF ev.text # <<>> THEN ev.text ELSE <<"(no text)">>
        author == IF ev.user # <<>>
                  THEN {[ret |-> <<AuthorBlock(ev.user, r.ret)>>, m |-> r.m]
                        : r \in get_user_info(ev.user, called)}
                  ELSE {[ret |-> <<AuthorBlock(ev.user, UNKNOWN_USER)>>, m |-> called]}
        body(a) == {[ret |-> Append(a.ret, SectionBlock(r.ret)), m |-> r.m]
                    : r \in re_sub(text, 1, <<>>, a.m)}
        label(b) == {[ret |-> Append(b.ret, ChannelBlock(is_private, r.ret)), m |-> r.m]
                     : r \in get_channel_name(ev.channel, b.m)}
        attach(c) == file_blocks(ev.files, 1, is_private, logger, c.ret, c.m)
    IN  Then(Then(Then(author, body), label), attach)

\* build_unfurl_block(event, include_images, logger); logger tells whether
\* a logger was passed
build_unfurl_block(ev, include_images, logger, m) ==
    LET called == Log(m, [op |-> "build_unfurl_block", include_images |-> include_images,
                          logger |-> logger])
        is_private == ev.channel_type = "group"
        text == IF ev.text # <<>> THEN ev.text ELSE <<"(no text)">>
        author == IF ev.user # <<>>
                  THEN {[ret |-> <<AuthorBlock(ev.user, r.ret)>>, m |-> r.m]
                        : r \in get_user_info(ev.user, called)}
                  ELSE {[ret |-> <<AuthorBlock(ev.user, UNKNOWN_USER)>>, m |-> called]}
        body(a) == {[ret |-> Append(a.ret, SectionBlock(r.ret)), m |-> r.m]
                    : r \in re_sub(text, 1, <<>>, a.m)}
        label(b) == {[ret |-> Append(b.ret, ChannelBlock(is_private, r.ret)), m |-> r.m]
                     : r \in get_channel_name(ev.channel, b.m)}
        attach(c) == IF include_images
                     THEN file_blocks(ev.files, 1, is_private, logger, c.ret, c.m)
                     ELSE {[ret |-> c.ret, exc |-> FALSE, m |-> c.m]}
    IN  Then(Then(Then(author, body), label), attach)

---------------------------------------------------------------------------
(* Collaborator calls of the relay handler.                                *)

\* client.chat_getPermalink(channel, message_ts)["permalink"]
chat_getPermalink(channel, message_ts, m) ==
    {[ret |-> [channel |-> channel, message_ts |-> message_ts], exc |-> ~ok,
      m   |-> Log(m, [op |-> "chat_getPermalink", channel |-> channel,
                      message_ts |-> message_ts, ok |-> ok])]
     : ok \in BOOLEAN}

\* client.chat_postMessage(channel=ALL_TIMELINE, text, thread_ts, attachments);
\* thread_ts = 0 and attachments = <<>> when the argument is not given.  A
\* post that succeeds gets the next timestamp of the timeline channel.
chat_postMessage(text, thread_ts, attachments, m) ==
    {LET ts == IF ok THEN m.timeline + 1 ELSE 0
     IN  [ret |-> ts, exc |-> ~ok,
          m   |-> Log([m EXCEPT !.timeline = IF ok THEN ts ELSE @],
                      [op |-> "chat_postMessage", channel |-> ALL_TIMELINE, text |-> text,
                       thread_ts |-> thread_ts, attachments |-> attachments, res |-> ts])]
     : ok \in BOOLEAN}

\* client.chat_unfurl(channel=ALL_TIMELINE, ts, unfurls={link: {"blocks": blocks}})
chat_unfurl(ts, link, blocks, m) ==
    {[exc |-> ~ok,
      m   |-> Log(m, [op |-> "chat_unfurl", channel |-> ALL_TIMELINE, ts |-> ts,
                      url |-> link, blocks |-> blocks, ok |-> ok])]
     : ok \in BOOLEAN}

\* relay_map[key] = value
relay_map_set(key, value, m) ==
    Log([m EXCEPT !.relay_map = Put(@, key, value)],
        [op |-> "relay_map_set", key |-> key, value |-> value])

\* "..." in event.get("text", "")
ContainsPhrase(text, phrase) == \E i \in 1..Len(text) : text[i] = phrase

StyledAttachment(blocks) == <<[blocks |-> blocks, color |-> "#f2c744"]>>

---------------------------------------------------------------------------
(* The relay handler.                                                      *)

\* a faulty line 266: the test of the timeline channel is missing
SkipAtEntry_no_loop_test(ev) ==
    ev.subtype = "bot_message" /\ ev.username # "Slackbot"

\* line 266: the events relay returns on at once
SkipAtEntry(ev) ==
    \/ ev.subtype = "bot_message" /\ ev.username # "Slackbot"
    \/ ev.channel = ALL_TIMELINE

\* a faulty lines 269-271: the text of the Slackbot message is not tested
is_slackbot_file_share_any_text(ev) ==
    /\ ev.subtype = "bot_message"
    /\ ev.username = "Slackbot"

\* lines 269-271
is_slackbot_file_share(ev) ==
    /\ ev.subtype = "bot_message"
    /\ ev.username = "Slackbot"
    /\ ContainsPhrase(ev.text, FILE_SHARE_PHRASE)

\* line 307: thread_ts = 0 when the event has no thread_ts
IsRoot(ev) == ev.thread_ts = 0 \/ ev.thread_ts = ev.ts

\* except Exception as e: logger.error(...)
Caught(results) == {[exc |-> FALSE, m |-> r.m] : r \in results}
Raise(m) == {[exc |-> TRUE, m |-> m]}
Done(m) == {[exc |-> FALSE, m |-> m]}

\* a faulty lines 310-335: relay_map is written after the try, from
\* whatever the post left, 0 when it failed
relay_private_root_writes_anyway(ev, payload, m) ==
    Then(build_unfurl_block(ev, TRUE, TRUE, m),
         LAMBDA b : IF b.exc THEN Raise(b.m)
                    ELSE Caught(Then(chat_postMessage(payload, 0, StyledAttachment(b.ret), b.m),
                                     LAMBDA p : Done(relay_map_set(ev.ts, p.ret, p.m)))))

\* lines 310-335: a root message of a private channel; the post has its
\* own try (lines 321-335)
relay_private_root(ev, payload, m) ==
    Then(build_unfurl_block(ev, TRUE, TRUE, m),
         LAMBDA b : IF b.exc THEN Raise(b.m)
                    ELSE Caught(Then(chat_postMessage(payload, 0, StyledAttachment(b.ret), b.m),
                                     LAMBDA p : IF p.exc THEN Raise(p.m)
                                                ELSE Done(relay_map_set(ev.ts, p.ret, p.m)))))

\* a faulty lines 336-349: relay_map is written after the unfurl request
relay_public_root_unfurl_first(ev, payload, link, m) ==
    Then(chat_postMessage(payload, 0, <<>>, m),
         LAMBDA p : IF p.exc THEN Raise(p.m)
                    ELSE Then(build_unfurl_block(ev, FALSE, FALSE, p.m),
                              LAMBDA b : IF b.exc THEN Raise(b.m)
                                         ELSE {[exc |-> FALSE,
                                                m |-> relay_map_set(ev.ts, p.ret, u.m)]
                                               : u \in chat_unfurl(p.ret, link, b.ret, b.m)}))

\* lines 336-349: a root message of a public channel; only the unfurl has
\* its own try (lines 343-349)
relay_public_root(ev, payload, link, m) ==
    Then(chat_postMessage(payload, 0, <<>>, m),
         LAMBDA p : IF p.exc THEN Raise(p.m)
                    ELSE Then(build_unfurl_block(ev, FALSE, FALSE,
                                                 relay_map_set(ev.ts, p.ret, p.m)),
                              LAMBDA b : IF b.exc THEN Raise(b.m)
                                         ELSE Caught(chat_unfurl(p.ret, link, b.ret, b.m))))

\* lines 356-371: a reply in a private channel whose root is mapped
relay_private_reply(ev, payload, root_ts, m) ==
    Then(build_unfurl_block(ev, TRUE, TRUE, m),
         LAMBDA b : IF b.exc THEN Raise(b.m)
                    ELSE Caught(chat_postMessage(payload, root_ts, StyledAttachment(b.ret), b.m)))

\* a faulty lines 372-388: the post is not given thread_ts
relay_public_reply_unthreaded(ev, payload, link, root_ts, m) ==
    Then(chat_postMessage(payload, 0, <<>>, m),
         LAMBDA p : IF p.exc THEN Raise(p.m)
                    ELSE Then(build_unfurl_block(ev, FALSE, FALSE, p.m),
                              LAMBDA b : IF b.exc THEN Raise(b.m)
                                         ELSE Caught(chat_unfurl(p.ret, link, b.ret, b.m))))

\* lines 372-388: a reply in a public channel whose root is mapped
relay_public_reply(ev, payload, link, root_ts, m) ==
    Then(chat_postMessage(payload, root_ts, <<>>, m),
         LAMBDA p : IF p.exc THEN Raise(p.m)
                    ELSE Then(build_unfurl_block(ev, FALSE, FALSE, p.m),
                              LAMBDA b : IF b.exc THEN Raise(b.m)
                                         ELSE Caught(chat_unfurl(p.ret, link, b.ret, b.m))))

\* a faulty lines 306-392: a reply whose root is not mapped is posted as a
\* root message
relay_route_posts_orphans(ev, payload, link, m) ==
    LET is_private == ev.channel_type = "group"
    IN  Caught(IF IsRoot(ev) \/ ~HasKey(m.relay_map, ev.thread_ts)
               THEN IF is_private THEN relay_private_root(ev, payload, m)
                    ELSE relay_public_root(ev, payload, link, m)
               ELSE IF is_private
                    THEN relay_private_reply(ev, payload, m.relay_map[ev.thread_ts], m)
                    ELSE relay_public_reply(ev, payload, link, m.relay_map[ev.thread_ts], m))

\* lines 306-392: the router, inside the handler's outer try
relay_route(ev, payload, link, m) ==
    LET is_private == ev.channel_type = "group"
    IN  Caught(IF IsRoot(ev)
               THEN IF is_private THEN relay_private_root(ev, payload, m)
                    ELSE relay_public_root(ev, payload, link, m)
               ELSE IF HasKey(m.relay_map, ev.thread_ts)
                    THEN IF is_private
                         THEN relay_private_reply(ev, payload, m.relay_map[ev.thread_ts], m)
                         ELSE relay_public_reply(ev, payload, link, m.relay_map[ev.thread_ts], m)
                    ELSE Done(m))

\* a faulty relay: lines 292-294 log the failure of the permalink lookup
\* and go on
relay_ignores_permalink_failure(ev, m) ==
    IF SkipAtEntry(ev) THEN Done(m)
    ELSE Then(chat_getPermalink(ev.channel, ev.ts, m),
              LAMBDA g : IF is_slackbot_file_share(ev) THEN Done(g.m)
                         ELSE Then(make_payload(ev.channel, ev.channel_type, g.ret, g.m),
                                   LAMBDA pl : relay_route(ev, pl.ret, g.ret, pl.m)))

\* relay(event, logger): the results [exc, m] the handler can end with; exc
\* tells that an exception left the handler
relay(ev, m) ==
    IF SkipAtEntry(ev) THEN Done(m)
    ELSE Then(chat_getPermalink(ev.channel, ev.ts, m),
              LAMBDA g : IF g.exc THEN Done(g.m)
                         ELSE IF is_slackbot_file_share(ev) THEN Done(g.m)
                         ELSE Then(make_payload(ev.channel, ev.channel_type, g.ret, g.m),
                                   LAMBDA pl : relay_route(ev, pl.ret, g.ret, pl.m)))

---------------------------------------------------------------------------
(* Events.                                                                 *)

F_IMAGE == [id |-> "F1", name |-> "a.png", mimetype |-> "image/png",
            url_private |-> "files-pri/F1", permalink |-> "files/F1"]
F_IMAGE_NO_URL == [id |-> "F2", name |-> "b.png", mimetype |-> "image/png",
                   url_private |-> "", permalink |-> ""]
F_IMAGE_NO_PERMALINK == [id |-> "F3", name |-> "c.png", mimetype |-> "image/png",
                         url_private |-> "files-pri/F3", permalink |-> ""]
F_DOC == [id |-> "F4", name |-> "d.pdf", mimetype |-> "application/pdf",
          url_private |-> "files-pri/F4", permalink |-> "files/F4"]

RECURSIVE SeqsUpTo(_, _)
SeqsUpTo(S, n) ==
    IF n = 0 THEN {<<>>}
    ELSE LET shorter == SeqsUpTo(S, n - 1)
         IN  shorter \cup {Append(q, x) : q \in {t \in shorter : Len(t) = n - 1}, x \in S}

MessageEvent(channel, ts, thread_ts, subtype, username, user, text, files) ==
    [channel |-> channel, channel_type |-> ChannelTypeOf(channel), ts |-> ts,
     thread_ts |-> thread_ts, subtype |-> subtype, username |-> username,
     user |-> user, text |-> text, files |-> files]

\* the events the message handler receives: messages of users with files,
\* and bot messages (of Slackbot, of another bot) without
Events ==
    {MessageEvent(ch, ts, th, "", "", U_KNOWN, <<"hello">>, fs)
       : ch \in {CH_PUBLIC, CH_PRIVATE}, ts \in 1..MaxTs, th \in 0..MaxTs,
         fs \in {<<>>, <<F_IMAGE>>, <<F_IMAGE_NO_URL>>, <<F_DOC>>}}
    \cup
    {MessageEvent(ch, ts, th, st[1], st[2], <<>>, tx, <<>>)
       : ch \in {ALL_TIMELINE, CH_PUBLIC, CH_PRIVATE}, ts \in 1..MaxTs, th \in 0..MaxTs,
         st \in {<<"", "">>, <<"bot_message", "Slackbot">>, <<"bot_message", "otherbot">>},
         tx \in {<<"hello">>, <<"x ", FILE_SHARE_PHRASE>>}}

NoEvent == MessageEvent(ALL_TIMELINE, 0, 0, "", "", <<>>, <<>>, <<>>)
NotBuilt == [called |-> FALSE]
NotResolved == [called |-> FALSE]

\* the worker threads that run the handler, and the locals of a call: pc is
\* the line of app.py the call is about to execute
Threads == 1..MaxThreads
NoLink == [channel |-> ALL_TIMELINE, message_ts |-> 0]
NoPayload == [ch_display |-> <<>>, permalink |-> NoLink]
IdleThread ==
    [pc |-> "idle", ev |-> NoEvent, link |-> NoLink, payload |-> NoPayload,
     unfurl_blocks |-> <<>>, res |-> 0, root_ts |-> 0,
     dropped |-> FALSE, posted_before |-> FALSE]

---------------------------------------------------------------------------
(* The specification of the running bridge.                                *)

Machine ==
    [relay_map |-> relay_map, channel_name_cache |-> channel_name_cache,
     user_info_cache |-> user_info_cache, rehoster_defined |-> rehoster_defined,
     temp_files |-> temp_files, timeline |-> timeline, trace |-> <<>>]

\* lines 29-33: the dictionaries start empty.  Run as a script
\* (python app.py), line 432 serves requests before line 437 binds
\* download_and_reupload_file; imported by a WSGI server, the whole module
\* is executed before the first request.
Init ==
    /\ relay_map = <<>>
    /\ channel_name_cache = <<>>
    /\ user_info_cache = <<>>
    /\ rehoster_defined \in BOOLEAN
    /\ temp_files = {}
    /\ timeline = 0
    /\ pc = "idle"
    /\ event = NoEvent
    /\ trace = <<>>
    /\ raised = FALSE
    /\ built = NotBuilt
    /\ resolved = NotResolved
    /\ threads = [t \in Threads |-> IdleThread]
    /\ mirrored = [ts \in 1..MaxTs |-> {}]
    /\ origin = <<>>

\* the timeline ts of the successful posts of a trace
PostedIds(tr) ==
    {tr[i].res : i \in {j \in DOMAIN tr : tr[j].op = "chat_postMessage" /\ tr[j].res > 0}}

\* the state the machine of a result leaves
Leaves(m) ==
    /\ relay_map' = m.relay_map
    /\ channel_name_cache' = m.channel_name_cache
    /\ user_info_cache' = m.user_info_cache
    /\ temp_files' = m.temp_files
    /\ timeline' = m.timeline
    /\ trace' = m.trace
    /\ UNCHANGED rehoster_defined

\* Slack delivers an event and relay(event, logger) runs to its end
RelayEvent ==
    /\ pc = "idle"
    /\ timeline < MaxPosts
    /\ \E ev \in Events : \E r \in relay(ev, Machine) :
          /\ Leaves(r.m)
          /\ raised' = r.exc
          /\ event' = ev
          /\ mirrored' = IF IsRoot(ev)
                         THEN [mirrored EXCEPT ![ev.ts] = @ \cup PostedIds(r.m.trace)]
                         ELSE mirrored
    /\ pc' = "done"
    /\ UNCHANGED <<built, resolved, threads>>

Relay == RelayEvent /\ UNCHANGED origin

\* the handler has returned: its event and what it did are forgotten
Return ==
    /\ pc = "done"
    /\ pc' = "idle"
    /\ event' = NoEvent
    /\ trace' = <<>>
    /\ raised' = FALSE
    /\ built' = NotBuilt
    /\ resolved' = NotResolved
    /\ UNCHANGED <<relay_map, channel_name_cache, user_info_cache, rehoster_defined,
                   temp_files, timeline, threads, mirrored, origin>>

Next == Relay \/ Return

Spec == Init /\ [][Next]_vars

---------------------------------------------------------------------------
(* The specification of the presentation builder called alone.             *)

\* the events build_unfurl_block is given: any author, text and files
BuildEvents ==
    {MessageEvent(ch, 1, 0, "", "", us, tx, fs)
       : ch \in {CH_PUBLIC, CH_PRIVATE}, us \in {U_KNOWN, <<>>},
         tx \in {<<>>, <<"hello">>, <<"hi ", "<", "@", "U", ">", "!">>},
         fs \in SeqsUpTo({F_IMAGE, F_IMAGE_NO_URL, F_IMAGE_NO_PERMALINK, F_DOC}, MaxBuildFiles)}

\* build_unfurl_block(event, include_images, logger) runs to its end
Build ==
    /\ pc = "idle"
    /\ \E ev \in BuildEvents, include_images \in BOOLEAN, logger \in BOOLEAN :
         \E r \in build_unfurl_block(ev, include_images, logger, Machine) :
            /\ Leaves(r.m)
            /\ raised' = r.exc
            /\ event' = ev
            /\ built' = [called |-> TRUE, include_images |-> include_images,
                         logger |-> logger, blocks |-> r.ret]
    /\ pc' = "done"
    /\ UNCHANGED <<resolved, threads, mirrored, origin>>

NextBuild == Build \/ Return

SpecBuild == Init /\ [][NextBuild]_vars

---------------------------------------------------------------------------
(* The specification of the mention resolver called alone: line 153 applied *)
(* to a text, and applied again to what it returned.                        *)

\* the pieces of the texts: the characters of the pattern, the one known
\* user id, an opaque chunk
Pieces == {"<", "@", "U", ">", "x "}
Texts == SeqsUpTo(Pieces, MaxTextLen)

\* text = re.sub(r'<@([A-Z0-9]+)>', replace_mention, text), twice
Resolve ==
    /\ pc = "idle"
    /\ \E text \in Texts :
         \E r1 \in re_sub(text, 1, <<>>, Machine) :
            \E r2 \in re_sub(r1.ret, 1, <<>>, r1.m) :
               /\ Leaves(r2.m)
               /\ resolved' = [called |-> TRUE, text |-> text, once |-> r1.ret,
                               twice |-> r2.ret, calls |-> Len(r1.m.trace)]
    /\ pc' = "done"
    /\ UNCHANGED <<event, raised, built, threads, mirrored, origin>>

NextResolve == Resolve \/ Return

SpecResolve == Init /\ [][NextResolve]_vars

---------------------------------------------------------------------------
(* The specification of concurrent delivery.  Bolt runs every call of the  *)
(* handler in a worker thread, so the calls for two events interleave      *)
(* between any two of their statements.  A step of a call is one           *)
(* collaborator call, one call of make_payload or build_unfurl_block, or   *)
(* one access to relay_map; the dictionaries and the timeline are shared.  *)

\* the events delivered at once: a root message and a reply to it, in a
\* public and in a private channel, with no author field
ThreadEvents ==
    {MessageEvent(ch, p[1], p[2], "", "", <<>>, <<"hello">>, <<>>)
       : ch \in {CH_PUBLIC, CH_PRIVATE}, p \in {<<1, 0>>, <<2, 1>>}}

\* the shared state a step leaves; a step logs nothing
SharedLeaves(m) ==
    /\ relay_map' = m.relay_map
    /\ channel_name_cache' = m.channel_name_cache
    /\ user_info_cache' = m.user_info_cache
    /\ temp_files' = m.temp_files
    /\ timeline' = m.timeline
    /\ UNCHANGED <<rehoster_defined, pc, event, trace, raised, built, resolved>>

\* another call, for the root message of ev's thread in ev's channel, has
\* had its post accepted
RootPosted(t, ev) ==
    \E u \in Threads \ {t} :
       /\ IsRoot(threads[u].ev) /\ threads[u].ev.channel = ev.channel
       /\ threads[u].ev.ts = ev.thread_ts /\ threads[u].res > 0

\* lines 265-267: an event is delivered to a free worker thread
Deliver(t) ==
    /\ threads[t].pc = "idle"
    /\ timeline < MaxPosts
    /\ \E ev \in ThreadEvents :
          threads' = [threads EXCEPT ![t] =
                         [IdleThread EXCEPT !.ev = ev,
                                            !.pc = IF SkipAtEntry(ev) THEN "end" ELSE "288"]]
    /\ UNCHANGED <<relay_map, channel_name_cache, user_info_cache, rehoster_defined,
                   temp_files, timeline, pc, event, trace, raised, built, resolved,
                   mirrored, origin>>

\* lines 288-298
GetPermalink(t) ==
    LET th == threads[t]
    IN  /\ th.pc = "288"
        /\ \E g \in chat_getPermalink(th.ev.channel, th.ev.ts, Machine) :
              /\ SharedLeaves(g.m)
              /\ threads' = [threads EXCEPT ![t] =
                    [th EXCEPT !.link = g.ret,
                               !.pc = IF g.exc \/ is_slackbot_file_share(th.ev)
                                      THEN "end" ELSE "300"]]
        /\ UNCHANGED <<mirrored, origin>>

\* lines 300-307
MakePayload(t) ==
    LET th == threads[t]
    IN  /\ th.pc = "300"
        /\ \E r \in make_payload(th.ev.channel, th.ev.channel_type, th.link, Machine) :
              /\ SharedLeaves(r.m)
              /\ threads' = [threads EXCEPT ![t] =
                    [th EXCEPT !.payload = r.ret,
                               !.pc = IF IsRoot(th.ev)
                                      THEN IF th.ev.channel_type = "group" THEN "312" ELSE "338"
                                      ELSE "352"]]
        /\ UNCHANGED <<mirrored, origin>>

\* lines 352-353: root_ts = relay_map.get(event["thread_ts"])
Lookup(t) ==
    LET th == threads[t]
        found == HasKey(relay_map, th.ev.thread_ts)
    IN  /\ th.pc = "352"
        /\ threads' = [threads EXCEPT ![t] =
              [th EXCEPT !.root_ts = IF found THEN relay_map[th.ev.thread_ts] ELSE 0,
                         !.dropped = ~found,
                         !.posted_before = RootPosted(t, th.ev),
                         !.pc = IF ~found THEN "end"
                                ELSE IF th.ev.channel_type = "group" THEN "358" ELSE "374"]]
        /\ UNCHANGED <<relay_map, channel_name_cache, user_info_cache, rehoster_defined,
                       temp_files, timeline, pc, event, trace, raised, built, resolved,
                       mirrored, origin>>

\* lines 312, 358 (with image inlining and the logger) and 341, 380
\* (without): unfurl_blocks = build_unfurl_block(event, ...)
BuildBlocks(t) ==
    LET th == threads[t]
        inline == th.pc \in {"312", "358"}
    IN  /\ th.pc \in {"312", "358", "341", "380"}
        /\ \E b \in build_unfurl_block(th.ev, inline, inline, Machine) :
              /\ SharedLeaves(b.m)
              /\ threads' = [threads EXCEPT ![t] =
                    [th EXCEPT !.unfurl_blocks = b.ret,
                               !.pc = IF b.exc THEN "end"
                                      ELSE CASE th.pc = "312" -> "322"
                                             [] th.pc = "358" -> "360"
                                             [] th.pc = "341" -> "344"
                                             [] th.pc = "380" -> "383"]]
        /\ UNCHANGED <<mirrored, origin>>

\* lines 322-329, 338, 360-368, 374-378: res = client.chat_postMessage(...)
Post(t) ==
    LET th == threads[t]
        styled == th.pc \in {"322", "360"}
    IN  /\ th.pc \in {"322", "338", "360", "374"}
        /\ \E p \in chat_postMessage(th.payload, th.root_ts,
                                    IF styled THEN StyledAttachment(th.unfurl_blocks) ELSE <<>>,
                                    Machine) :
              /\ SharedLeaves(p.m)
              /\ threads' = [threads EXCEPT ![t] =
                    [th EXCEPT !.res = p.ret,
                               !.pc = IF p.exc THEN "end"
                                      ELSE CASE th.pc = "322" -> "331"
                                             [] th.pc = "338" -> "339"
                                             [] th.pc = "360" -> "end"
                                             [] th.pc = "374" -> "380"]]
              /\ mirrored' = IF ~p.exc /\ IsRoot(th.ev)
                             THEN [mirrored EXCEPT ![th.ev.ts] = @ \cup {p.ret}]
                             ELSE mirrored
        /\ UNCHANGED origin

\* lines 331, 339: relay_map[event["ts"]] = res["ts"]
MapSet(t) ==
    LET th == threads[t]
    IN  /\ th.pc \in {"331", "339"}
        /\ SharedLeaves(relay_map_set(th.ev.ts, th.res, Machine))
        /\ threads' = [threads EXCEPT ![t] =
              [th EXCEPT !.pc = IF th.pc = "331" THEN "end" ELSE "341"]]
        /\ UNCHANGED <<mirrored, origin>>

\* lines 343-349, 382-388
Unfurl(t) ==
    LET th == threads[t]
    IN  /\ th.pc \in {"344", "383"}
        /\ \E u \in chat_unfurl(th.res, th.link, th.unfurl_blocks, Machine) :
              SharedLeaves(u.m)
        /\ threads' = [threads EXCEPT ![t] = [th EXCEPT !.pc = "end"]]
        /\ UNCHANGED <<mirrored, origin>>

\* the handler returns
End(t) ==
    /\ threads[t].pc = "end"
    /\ threads' = [threads EXCEPT ![t] = IdleThread]
    /\ UNCHANGED <<relay_map, channel_name_cache, user_info_cache, rehoster_defined,
                   temp_files, timeline, pc, event, trace, raised, built, resolved,
                   mirrored, origin>>

NextThreads ==
    \E t \in Threads :
       \/ Deliver(t) \/ GetPermalink(t) \/ MakePayload(t) \/ Lookup(t) \/ BuildBlocks(t)
       \/ Post(t) \/ MapSet(t) \/ Unfurl(t) \/ End(t)

SpecThreads == Init /\ [][NextThreads]_vars

---------------------------------------------------------------------------
(* The specification of the running bridge with the origin of every mirror *)
(* recorded: the steps of Spec, and the channel of each root event whose   *)
(* post was accepted is kept with the timeline ts the post returned.       *)

RelayRecorded ==
    /\ RelayEvent
    /\ origin' = IF IsRoot(event')
                 THEN [id \in DOMAIN origin \cup PostedIds(trace') |->
                          IF id \in PostedIds(trace') THEN event'.channel ELSE origin[id]]
                 ELSE origin

NextChannels == RelayRecorded \/ Return

SpecChannels == Init /\ [][NextChannels]_vars

---------------------------------------------------------------------------
(* Vocabulary of the properties.                                           *)

\* the entries of a trace made by one operation
IdxOf(tr, op) == {i \in DOMAIN tr : tr[i].op = op}
PostsOf(tr) == IdxOf(tr, "chat_postMessage")
UnfurlsOf(tr) == IdxOf(tr, "chat_unfurl")
RehostCallsOf(tr) == IdxOf(tr, "requests_get") \cup IdxOf(tr, "files_upload_v2")
PermalinkOk(tr) == \E i \in IdxOf(tr, "chat_getPermalink") : tr[i].ok

\* the Event Classifier's three skip conditions, and its verdict
BotEcho(ev) == ev.subtype = "bot_message" /\ ev.username # "Slackbot"
FromTimeline(ev) == ev.channel = ALL_TIMELINE
FileShareAnnouncement(ev) ==
    /\ ev.subtype = "bot_message" /\ ev.username = "Slackbot"
    /\ \E i \in DOMAIN ev.text : ev.text[i] = FILE_SHARE_PHRASE
ClassifiedProceed(ev) == ~BotEcho(ev) /\ ~FromTimeline(ev) /\ ~FileShareAnnouncement(ev)

RootEvent(ev) == ev.thread_ts = 0 \/ ev.thread_ts = ev.ts
ReplyEvent(ev) == ev.thread_ts # 0 /\ ev.thread_ts # ev.ts
PublicOrigin(ev) == ev.channel_type # "group"
PrivateOrigin(ev) == ev.channel_type = "group"
ImageFiles(ev) == {i \in DOMAIN ev.files : ev.files[i].mimetype = "image/png"}

\* the relay handler has just handled event
Handled == pc = "done" /\ ~built.called
\* build_unfurl_block has just been called alone on event
Built == pc = "done" /\ built.called

---------------------------------------------------------------------------
(* C1  Loop prevention.  An event whose origin channel is the timeline     *)
(* channel, whatever its subtype and thread fields and whatever the state, *)
(* makes the handler do nothing: no call at all (no permalink lookup, no   *)
(* post, no unfurl, no upload), no exception, relay_map unchanged.         *)
C1_LoopPrevention ==
    [][(Handled' /\ event'.channel = ALL_TIMELINE)
         => (trace' = <<>> /\ relay_map' = relay_map /\ ~raised')]_vars

\* a user's reply, in the timeline, to a thread that has been mirrored
C1_Witness ==
    /\ Handled /\ event.channel = ALL_TIMELINE
    /\ event.subtype = "" /\ event.thread_ts # 0 /\ HasKey(relay_map, event.thread_ts)

---------------------------------------------------------------------------
BuildRaises(ev) == PrivateOrigin(ev) /\ ImageFiles(ev) # {} /\ ~rehoster_defined

---------------------------------------------------------------------------
---------------------------------------------------------------------------
(* C4  RelayMapping invariant.  relay_map has an entry for T exactly when  *)
(* the post of some root event with timestamp T has succeeded, its value   *)
(* is a timeline ts such a post returned, and in the handler every write   *)
(* of relay_map comes after the successful post whose ts it stores.        *)
C4_RelayMappingInvariant ==
    /\ \A ts \in 1..MaxTs : HasKey(relay_map, ts) <=> mirrored[ts] # {}
    /\ \A ts \in DOMAIN relay_map : relay_map[ts] \in mirrored[ts]
    /\ Handled =>
         \A j \in IdxOf(trace, "relay_map_set") :
            /\ RootEvent(event) /\ trace[j].key = event.ts
            /\ \E i \in PostsOf(trace) : i < j /\ trace[i].res > 0 /\ trace[i].res = trace[j].value

\* two threads are mapped, and the post of a later root event has failed
C4_Witness ==
    /\ Handled /\ RootEvent(event) /\ Cardinality(DOMAIN relay_map) = 2
    /\ \E i \in PostsOf(trace) : trace[i].res = 0

---------------------------------------------------------------------------
---------------------------------------------------------------------------
(* C6  Private root.  For a root event of a private channel whose          *)
(* permalink lookup succeeds, the handler first builds the presentation    *)
(* with image inlining (and any rehosting), then issues exactly one post,  *)
(* which carries that presentation as a styled attachment, and no unfurl   *)
(* request; relay_map is written for the event's ts if the post succeeds   *)
(* and is not written if it fails.                                         *)
C6_PrivateRoot ==
    (/\ Handled /\ RootEvent(event) /\ PrivateOrigin(event) /\ ClassifiedProceed(event)
     /\ PermalinkOk(trace))
      => \E b, i \in DOMAIN trace :
            /\ b < i
            /\ IdxOf(trace, "build_unfurl_block") = {b} /\ trace[b].include_images
            /\ \A r \in RehostCallsOf(trace) : b < r /\ r < i
            /\ PostsOf(trace) = {i} /\ trace[i].thread_ts = 0
            /\ Len(trace[i].attachments) = 1
            /\ Len(trace[i].attachments[1].blocks) = 3 + Len(event.files)
            /\ UnfurlsOf(trace) = {}
            /\ IF trace[i].res > 0
               THEN /\ \E j \in DOMAIN trace : j > i /\ IdxOf(trace, "relay_map_set") = {j}
                    /\ HasKey(relay_map, event.ts) /\ relay_map[event.ts] = trace[i].res
               ELSE IdxOf(trace, "relay_map_set") = {}

\* C6 is broken by nothing but the unbound rehoster
C6_HoldsWhenBound == rehoster_defined => C6_PrivateRoot

---------------------------------------------------------------------------
(* Vocabulary of the presentation properties.                              *)

\* the text of a section block holds the url
LinksTo(block, url) ==
    block.type = "section" /\ \E p \in DOMAIN block.text.text : block.text.text[p] = url

\* the n-th smallest member of a set of positions
Nth(S, n) == CHOOSE i \in S : Cardinality({j \in S : j <= i}) = n

\* the rehost attempt for file k (an image with a private URL) of event
\* succeeded: its download answered 200 and the upload returned a file
RehostSucceeded(ev, tr, k) ==
    LET gets == IdxOf(tr, "requests_get")
        n == Cardinality({x \in 1..k : x \in ImageFiles(ev) /\ ev.files[x].url_private # ""})
    IN  /\ ev.files[k].url_private # ""
        /\ n <= Cardinality(gets)
        /\ LET g == Nth(gets, n)
           IN  /\ tr[g].result = "200"
               /\ g + 1 \in IdxOf(tr, "files_upload_v2")
               /\ tr[g + 1].result = "file"

\* the first three blocks: author, body, channel label
BaseBlocks(ev, blocks) ==
    /\ Len(blocks) >= 3
    /\ blocks[1].type = "context" /\ blocks[2].type = "section" /\ blocks[3].type = "context"
    /\ blocks[3].elements[1].text[1] =
          IF PrivateOrigin(ev) THEN "private channel: " ELSE "channel: #"

\* the block of a file that is linked as it is: an image to its permalink,
\* or to its URL when it has none, another file as a generic file link
PlainFileBlock(f, block) ==
    IF f.mimetype = "image/png"
    THEN block = ImageLinkBlock(IF f.permalink # "" THEN f.permalink ELSE f.url_private, f.name)
    ELSE block = FileLinkBlock(f.url_private, f.name)

---------------------------------------------------------------------------
(* C7  The presentation of a private-origin event built with inlining      *)
(* (and a logger, as relay calls it) for n files has exactly 3+n blocks:   *)
(* author, body, channel label, then one block per file in the original    *)
(* order.  The block of an image links to the new permalink when its       *)
(* rehosting succeeded, to the original private URL when it failed and the *)
(* URL is present, and is the "not viewable" placeholder when it failed    *)
(* and no private URL is present; no file is dropped.                      *)
C7_PrivatePresentation ==
    (Built /\ PrivateOrigin(event) /\ built.include_images /\ built.logger)
      => /\ ~raised
         /\ Len(built.blocks) = 3 + Len(event.files)
         /\ BaseBlocks(event, built.blocks)
         /\ \A k \in DOMAIN event.files :
              LET f == event.files[k]
                  block == built.blocks[3 + k]
              IN  IF k \in ImageFiles(event)
                  THEN IF RehostSucceeded(event, trace, k)
                       THEN LinksTo(block, UPLOADED_FILE.permalink) /\ ~LinksTo(block, f.url_private)
                       ELSE IF f.url_private # ""
                            THEN LinksTo(block, f.url_private)
                            ELSE block = NotViewableBlock
                  ELSE PlainFileBlock(f, block)

\* C7 is broken by nothing but the unbound rehoster
C7_HoldsWhenBound == rehoster_defined => C7_PrivatePresentation

---------------------------------------------------------------------------
---------------------------------------------------------------------------
(* C9  Rehosting scope.  A download of a private file or an upload to the  *)
(* timeline is issued only inside a presentation built with image inlining *)
(* for a private-origin event, and for an image file of that event; no     *)
(* public-origin event, root or reply, and no file that is not an image    *)
(* makes the handler call the rehoster.                                    *)
C9_RehostingScope ==
    pc = "done" =>
      \A r \in RehostCallsOf(trace) :
         /\ PrivateOrigin(event)
         /\ \E b \in IdxOf(trace, "build_unfurl_block") : b < r /\ trace[b].include_images
         /\ \E k \in ImageFiles(event) :
               IF trace[r].op = "requests_get"
               THEN trace[r].url = event.files[k].url_private
               ELSE trace[r].filename = event.files[k].name

\* a reply in a private channel whose image has been uploaded again
C9_Witness ==
    /\ Handled /\ ReplyEvent(event) /\ PrivateOrigin(event)
    /\ \E r \in IdxOf(trace, "files_upload_v2") : trace[r].result = "file"

---------------------------------------------------------------------------
(* C10  Directory cache hits.  For a channel id and for a user id: once a  *)
(* lookup has stored an entry, every later lookup of the id, in the same   *)
(* call and in every later one, makes no remote directory call and returns *)
(* the value the storing lookup returned; so a second remote call for an   *)
(* id is made only after the lookups before it stored nothing.             *)
CacheHits(tr, before, after, lookup, remote, set) ==
    /\ \A id \in DOMAIN before :
          /\ HasKey(after, id) /\ after[id] = before[id]
          /\ \A i \in IdxOf(tr, remote) : tr[i].id # id
          /\ \A i \in IdxOf(tr, lookup) : tr[i].id = id => tr[i].ret = before[id]
    /\ \A w \in IdxOf(tr, set) :
          /\ ~HasKey(before, tr[w].id)
          /\ HasKey(after, tr[w].id) /\ after[tr[w].id] = tr[w].value
          /\ \A i \in IdxOf(tr, remote) : i > w => tr[i].id # tr[w].id
          /\ \A i \in IdxOf(tr, lookup) : (i > w /\ tr[i].id = tr[w].id) => tr[i].ret = tr[w].value

C10_DirectoryCacheHit ==
    [][pc' = "done" =>
         /\ CacheHits(trace', channel_name_cache, channel_name_cache',
                      "get_channel_name", "conversations_info", "channel_name_cache_set")
         /\ CacheHits(trace', user_info_cache, user_info_cache',
                      "get_user_info", "users_info", "user_info_cache_set")]_vars

\* the handler has looked a cached user up, and a channel whose cached
\* name is the fallback of an earlier channel_not_found
C10_Witness ==
    /\ Handled
    /\ \E i \in IdxOf(trace, "get_user_info") : trace[i].hit
    /\ \E i \in IdxOf(trace, "get_channel_name") :
          trace[i].hit /\ trace[i].ret = <<"external-", Last6(trace[i].id)>>
    /\ IdxOf(trace, "conversations_info") = {} /\ IdxOf(trace, "users_info") = {}

---------------------------------------------------------------------------
(* C11  Channel lookup failure policy.  When get_channel_name misses and   *)
(* conversations.info fails with channel_not_found, the fallback name made *)
(* of the id's last six characters is returned and stored, and every later *)
(* lookup of the id returns it without a remote call.  When the call fails *)
(* in another way, "unknown" is returned and nothing is stored: while no   *)
(* lookup of the id has stored a name the id stays absent from the cache,  *)
(* and the next lookup of the id issues the remote call again.             *)

\* the lookups of channel id that end after position i of tr
LaterLookups(tr, i, id) == {j \in IdxOf(tr, "get_channel_name") : j > i /\ tr[j].id = id}
\* the remote calls for channel id issued after position i of tr
LaterRemoteCalls(tr, i, id) == {j \in IdxOf(tr, "conversations_info") : j > i /\ tr[j].id = id}

---------------------------------------------------------------------------
(* C12  The sentinel of a failed lookup is cached.  When the remote call   *)
(* of a directory lookup fails, for a user id (users.info fails) as well   *)
(* as for a channel id (conversations.info fails with channel_not_found,   *)
(* the failure that has a sentinel, see C11), the cache holds an entry for *)
(* that id when the call has ended, and no further remote call for the id  *)
(* is made after the failure.                                              *)
C12_FailedLookupCached ==
    pc = "done" =>
      /\ \A i \in IdxOf(trace, "users_info") :
            ~trace[i].result =>
               /\ HasKey(user_info_cache, trace[i].id)
               /\ \A k \in IdxOf(trace, "users_info") : k > i => trace[k].id # trace[i].id
      /\ \A i \in IdxOf(trace, "conversations_info") :
            trace[i].result = "channel_not_found" =>
               /\ HasKey(channel_name_cache, trace[i].id)
               /\ LaterRemoteCalls(trace, i, trace[i].id) = {}

\* what the code does instead for a user: the lookup that failed returns
\* the "Unknown User" record and stores nothing
C12_UserFailureStoresNothing ==
    [][pc' = "done" =>
         \A i \in IdxOf(trace', "users_info") :
            ~trace'[i].result =>
               /\ trace'[i + 1] = [op |-> "get_user_info", id |-> trace'[i].id, hit |-> FALSE,
                                   ret |-> UNKNOWN_USER]
               /\ (\A k \in IdxOf(trace', "users_info") :
                      trace'[k].id = trace'[i].id => ~trace'[k].result)
                    => ~HasKey(user_info_cache', trace'[i].id)]_vars

---------------------------------------------------------------------------
(* C13  Per-event failure isolation.  When the permalink lookup of an      *)
(* event fails, the handler issues no post, no unfurl request, no download *)
(* and no upload and leaves relay_map unchanged.  When the post of an      *)
(* event fails, relay_map is not written and no unfurl request is issued.  *)
(* In both cases no exception leaves the handler: it returns (Return is   *)
(* enabled in every Handled state) and the next event is handled.          *)
PermalinkFailed(tr) == \E i \in IdxOf(tr, "chat_getPermalink") : ~tr[i].ok
PostFailed(tr) == \E i \in PostsOf(tr) : tr[i].res = 0

C13_PerEventFailureIsolation ==
    [][Handled' =>
         /\ PermalinkFailed(trace') =>
               /\ PostsOf(trace') = {} /\ UnfurlsOf(trace') = {}
               /\ RehostCallsOf(trace') = {}
               /\ relay_map' = relay_map
               /\ ~raised'
         /\ PostFailed(trace') =>
               /\ IdxOf(trace', "relay_map_set") = {} /\ relay_map' = relay_map
               /\ UnfurlsOf(trace') = {}
               /\ Cardinality(PostsOf(trace')) = 1
               /\ ~raised']_vars

\* the post of a private root failed after its image had been uploaded
\* again, while another thread is mapped
C13_Witness ==
    /\ Handled /\ RootEvent(event) /\ PrivateOrigin(event) /\ PostFailed(trace)
    /\ \E r \in IdxOf(trace, "files_upload_v2") : trace[r].result = "file"
    /\ relay_map # <<>>

\* the permalink lookup of a root event failed while its thread is mapped
C13_WitnessPermalink ==
    /\ Handled /\ RootEvent(event) /\ PermalinkFailed(trace)
    /\ ClassifiedProceed(event) /\ HasKey(relay_map, event.ts)

---------------------------------------------------------------------------
(* C14  A failure about one attachment never aborts the event.  For a root *)
(* event, or a reply whose root is mapped, of a private channel, with an   *)
(* image attached and its permalink resolved: however the rehost attempt   *)
(* for the image ends (no private URL, a download status other than 200,   *)
(* an upload that fails, an exception during the attempt), the             *)
(* presentation is built with all its blocks and exactly one post, which   *)
(* carries it, is issued.                                                  *)
C14_AttachmentFailureNeverAborts ==
    (/\ Handled /\ PrivateOrigin(event) /\ ClassifiedProceed(event) /\ PermalinkOk(trace)
     /\ ImageFiles(event) # {}
     /\ RootEvent(event) \/ HasKey(relay_map, event.thread_ts))
      => \E i \in PostsOf(trace) :
            /\ PostsOf(trace) = {i}
            /\ Len(trace[i].attachments) = 1
            /\ Len(trace[i].attachments[1].blocks) = 3 + Len(event.files)

\* C14 is broken by nothing but the unbound rehoster
C14_HoldsWhenBound == rehoster_defined => C14_AttachmentFailureNeverAborts

---------------------------------------------------------------------------
(* C15  Temporary file cleanup.  Every temporary file that a call of       *)
(* download_and_reupload_file creates is unlinked before the call returns, *)
(* on every path (upload done, download status other than 200, download    *)
(* raising, upload failing): between its creation and its unlinking only   *)
(* the download and the upload take place, it is unlinked once, and no     *)
(* temporary file exists when a handler has ended.                         *)
C15_TempFileCleanup ==
    /\ temp_files = {}
    /\ \A c \in IdxOf(trace, "NamedTemporaryFile") :
          \E u \in IdxOf(trace, "os_unlink") :
             /\ u > c /\ trace[u].path = trace[c].path
             /\ \A k \in (c + 1)..(u - 1) : trace[k].op \in {"requests_get", "files_upload_v2"}
             /\ \A v \in IdxOf(trace, "os_unlink") : trace[v].path = trace[c].path => v = u

\* the image of a private reply was downloaded and its upload raised
C15_Witness ==
    /\ Handled /\ ReplyEvent(event) /\ PrivateOrigin(event)
    /\ \E r \in IdxOf(trace, "files_upload_v2") : trace[r].result = "exception"
    /\ IdxOf(trace, "NamedTemporaryFile") # {} /\ IdxOf(trace, "os_unlink") # {}

---------------------------------------------------------------------------
(* C16  The classifier's skips relay nothing.  A bot_message event whose   *)
(* username is not Slackbot, and a Slackbot event whose text holds the     *)
(* private-file-share announcement, produce no post, no unfurl request, no *)
(* download and no upload, and leave relay_map unchanged.  A Slackbot      *)
(* event whose text does not hold the announcement is handled exactly as   *)
(* the same event without subtype and username would be: the same calls    *)
(* with the same results, the same writes, the same end.                   *)

\* the event with the fields of a bot message removed
AsNormalEvent(ev) == [ev EXCEPT !.subtype = "", !.username = ""]

C16_ClassifierSkips ==
    [][Handled' =>
         /\ (BotEcho(event') \/ FileShareAnnouncement(event')) =>
               /\ PostsOf(trace') = {} /\ UnfurlsOf(trace') = {}
               /\ RehostCallsOf(trace') = {}
               /\ relay_map' = relay_map
         /\ (event'.subtype = "bot_message" /\ event'.username = "Slackbot"
             /\ ~FileShareAnnouncement(event')) =>
               \E r \in relay(AsNormalEvent(event'), Machine) :
                  /\ r.m.trace = trace' /\ r.exc = raised'
                  /\ r.m.relay_map = relay_map' /\ r.m.timeline = timeline'
                  /\ r.m.channel_name_cache = channel_name_cache'
                  /\ r.m.user_info_cache = user_info_cache']_vars

\* a Slackbot message without the announcement, a reply to a mapped root of
\* a public channel, has been posted and unfurled
C16_Witness ==
    /\ Handled /\ event.subtype = "bot_message" /\ event.username = "Slackbot"
    /\ ~FileShareAnnouncement(event) /\ ReplyEvent(event) /\ ~FromTimeline(event)
    /\ \E i \in PostsOf(trace) : trace[i].res > 0 /\ trace[i].thread_ts > 0
    /\ \E k \in UnfurlsOf(trace) : trace[k].ok

\* a Slackbot announcement of a private file share, a root event, has been
\* skipped after its permalink was resolved
C16_WitnessSkip ==
    /\ Handled /\ FileShareAnnouncement(event) /\ ~FromTimeline(event)
    /\ PermalinkOk(trace) /\ Len(trace) = 1

---------------------------------------------------------------------------
(* C17  The mention resolver is idempotent.  For every text, resolving the *)
(* mentions of the resolved text gives the resolved text again; and a text *)
(* that holds no mention token is returned as it is.                       *)

\* the mention resolver has just been applied, twice, to resolved.text
Resolved == pc = "done" /\ resolved.called
\* the text holds a match of the pattern <@([A-Z0-9]+)>
HasMention(text) == \E i \in DOMAIN text : MatchLen(text, i) > 0

C17_MentionResolverIdempotent ==
    Resolved =>
      /\ resolved.twice = resolved.once
      /\ ~HasMention(resolved.text) => resolved.once = resolved.text

\* what holds: a text without a mention token is returned as it is, with no
\* directory lookup, and resolving changes nothing but the tokens
C17_NoMentionUnmodified ==
    Resolved =>
      /\ ~HasMention(resolved.text) => (resolved.once = resolved.text /\ trace = <<>>)
      /\ ~HasMention(resolved.once) => resolved.twice = resolved.once

---------------------------------------------------------------------------
(* C18  Happens-before under concurrent delivery.  When the calls for a    *)
(* root event and for a reply to it interleave, a reply whose lookup of    *)
(* relay_map takes place after the post of the root has been accepted      *)
(* finds the entry of the root: it is never dropped for a missing entry.   *)
C18_HappensBefore ==
    \A t \in Threads : threads[t].dropped => ~threads[t].posted_before

---------------------------------------------------------------------------
(* C19  relay_map is a write-once cache with no eviction.  Once relay_map  *)
(* holds T -> D it holds T -> D in every later state, whatever events      *)
(* follow, the same root event delivered again and replies included.       *)
C19_WriteOnce ==
    [][\A ts \in DOMAIN relay_map :
          HasKey(relay_map', ts) /\ relay_map'[ts] = relay_map[ts]]_vars

\* what holds: no entry is ever removed, and a reply writes nothing
C19_NeverRemoved ==
    [][/\ DOMAIN relay_map \subseteq DOMAIN relay_map'
       /\ (Handled' /\ ReplyEvent(event')) => relay_map' = relay_map]_vars

---------------------------------------------------------------------------
(* C20  Classification precedes routing.  The permalink lookup and every   *)
(* other collaborator call are issued only for an event the classifier     *)
(* lets proceed: an event from the timeline channel, a bot message not     *)
(* from Slackbot, and a Slackbot announcement of a private file share each *)
(* make the handler issue no call at all.                                  *)
C20_ClassificationPrecedesRouting ==
    (Handled /\ ~ClassifiedProceed(event)) => trace = <<>>

\* what holds: the first two skips issue no call, and the announcement
\* issues the permalink lookup and nothing else
C20_SkipsIssueAtMostPermalink ==
    (Handled /\ ~ClassifiedProceed(event)) =>
       IF BotEcho(event) \/ FromTimeline(event)
       THEN trace = <<>>
       ELSE Len(trace) = 1 /\ trace[1].op = "chat_getPermalink"

---------------------------------------------------------------------------
(* C21  Thread isolation across channels.  A reply event from channel C is *)
(* posted as a threaded reply only under a timeline post that mirrors a    *)
(* root message of the same channel C: a root relayed from another channel *)
(* that has the same timestamp never captures the reply.                   *)
C21_ThreadIsolation ==
    (Handled /\ ReplyEvent(event)) =>
       \A i \in PostsOf(trace) :
          /\ trace[i].thread_ts > 0
          /\ HasKey(origin, trace[i].thread_ts)
          /\ origin[trace[i].thread_ts] = event.channel

\* what holds: the reply is threaded under the post recorded for its
\* thread-root timestamp, which mirrors a root message with that timestamp
\* of some channel
C21_ThreadedUnderRecordedPost ==
    (Handled /\ ReplyEvent(event)) =>
       \A i \in PostsOf(trace) :
          /\ HasKey(relay_map, event.thread_ts)
          /\ trace[i].thread_ts = relay_map[event.thread_ts]
          /\ HasKey(origin, trace[i].thread_ts)
          /\ trace[i].thread_ts \in mirrored[event.thread_ts]

=============================================================================
